---- MODULE Spec2Model ----
(***************************************************************************)
(* Model of the miner discovery and query commands of                      *)
(* src-tauri/src/lib.rs: get_miner_data, restart_miner,                     *)
(* update_miner_settings, check_miner_at_ip and scan_network.               *)
(*                                                                         *)
(* One command invocation is followed from its call to its return.  Every  *)
(* HTTP exchange is two awaits in the source (send(), then json()/text()), *)
(* so it is two environment steps here: the headers arrive (or the         *)
(* transport fails), then the body is read.  What the device answers is    *)
(* chosen by the environment.  Strings are sequences of one-character      *)
(* strings, so that split, parse and format are computed, not assumed.     *)
(*                                                                         *)
(* reqwest::Client::builder().timeout(..).build() performs no I/O; it is   *)
(* taken to succeed, so its map_err(..)? early return is not a behaviour   *)
(* of the model.                                                           *)
(***************************************************************************)
EXTENDS Integers, Sequences, FiniteSets, TLC

\* ------------------------------------------------------------------ bounds
\* largest number of addresses in a scanned range
MaxProbes == 2

\* ------------------------------------------------------- program constants
\* u8::MAX, the width of the start, end and octet values
U8Max == 255

\* --------------------------------------------------------------- strings
Digits == {"0", "1", "2", "3", "4", "5", "6", "7", "8", "9"}

DigitVal(c) ==
    CASE c = "0" -> 0 [] c = "1" -> 1 [] c = "2" -> 2 [] c = "3" -> 3
      [] c = "4" -> 4 [] c = "5" -> 5 [] c = "6" -> 6 [] c = "7" -> 7
      [] c = "8" -> 8 [] c = "9" -> 9

DigitChar(d) ==
    CASE d = 0 -> "0" [] d = 1 -> "1" [] d = 2 -> "2" [] d = 3 -> "3"
      [] d = 4 -> "4" [] d = 5 -> "5" [] d = 6 -> "6" [] d = 7 -> "7"
      [] d = 8 -> "8" [] d = 9 -> "9"

\* the failure value of parse_u8
ParseErr == -1

\* the digit loop of u8::from_str: checked multiply by ten, checked add
RECURSIVE ParseDigits(_, _)
ParseDigits(s, acc) ==
    IF s = <<>> THEN acc
    ELSE IF Head(s) \notin Digits THEN ParseErr
    ELSE IF acc * 10 + DigitVal(Head(s)) > U8Max THEN ParseErr
    ELSE ParseDigits(Tail(s), acc * 10 + DigitVal(Head(s)))

\* str::parse::<u8>(): empty is an error, one leading "+" is accepted,
\* a lone sign is an error, "-" is no digit of an unsigned type
parse_u8(s) ==
    IF s = <<>> THEN ParseErr
    ELSE IF Head(s) = "+"
         THEN IF Tail(s) = <<>> THEN ParseErr ELSE ParseDigits(Tail(s), 0)
         ELSE ParseDigits(s, 0)

\* subnet.split('.').collect(): the parts between the dots, empty parts kept
RECURSIVE SplitFrom(_, _, _)
SplitFrom(s, cur, acc) ==
    IF s = <<>> THEN Append(acc, cur)
    ELSE IF Head(s) = "." THEN SplitFrom(Tail(s), <<>>, Append(acc, cur))
    ELSE SplitFrom(Tail(s), Append(cur, Head(s)), acc)

split(s) == SplitFrom(s, <<>>, <<>>)

\* Display of a u8: its decimal digits, no leading zero
RECURSIVE U8ToStr(_)
U8ToStr(n) ==
    IF n < 10 THEN <<DigitChar(n)>>
    ELSE Append(U8ToStr(n \div 10), DigitChar(n % 10))

\* format!("{}.{}", subnet, i)
FormatIp(subnet, i) == subnet \o <<".">> \o U8ToStr(i)

\* ------------------------------------------------------------- Option<T>
None == [some |-> FALSE]

Some(v) == [some |-> TRUE, v |-> v]

\* --------------------------------------------------------- serde_json::Value
JStr(s) == [t |-> "str", s |-> s]

\* a JSON value that is no string (a number)
JNum == [t |-> "num"]

\* a JSON value that is no object (an array)
JArr == [t |-> "arr"]

\* f: a function from the keys that are present to their values
JObj(f) == [t |-> "obj", f |-> f]

\* Value::get(key): None on a value that is no object or lacks the key
Get(json, key) ==
    IF json.t = "obj" /\ key \in DOMAIN json.f THEN Some(json.f[key]) ELSE None

\* a conversion that makes the empty string of a value that is no string
AsStrOrDefault(v) == IF v.t = "str" THEN Some(v.s) ELSE Some("")

\* Value::as_str()
AsStr(v) == IF v.t = "str" THEN Some(v.s) ELSE None

\* Option::and_then(|v| v.as_str()).map(|s| s.to_string())
AndThenAsStr(o) == IF o.some THEN AsStr(o.v) ELSE None

\* Option::or_else
OrElse(o, alt) == IF o.some THEN o ELSE alt

\* the record with axeOSVersion looked up before version
ExtractMinerAxeFirst(ip, json) ==
    [ip       |-> ip,
     hostname |-> AndThenAsStr(Get(json, "hostname")),
     version  |-> AndThenAsStr(OrElse(Get(json, "axeOSVersion"), Get(json, "version"))),
     model    |-> AndThenAsStr(Get(json, "ASICModel"))]

\* the record with the fallback taken after as_str: a version that is no
\* string falls back to axeOSVersion
ExtractMinerStrFallback(ip, json) ==
    [ip       |-> ip,
     hostname |-> AndThenAsStr(Get(json, "hostname")),
     version  |-> OrElse(AndThenAsStr(Get(json, "version")),
                         AndThenAsStr(Get(json, "axeOSVersion"))),
     model    |-> AndThenAsStr(Get(json, "ASICModel"))]

\* the DiscoveredMiner built at lines 259-275
ExtractMiner(ip, json) ==
    [ip       |-> ip,
     hostname |-> AndThenAsStr(Get(json, "hostname")),
     version  |-> AndThenAsStr(OrElse(Get(json, "version"), Get(json, "axeOSVersion"))),
     model    |-> AndThenAsStr(Get(json, "ASICModel"))]

\* serde_json::json!({"success": true})
SuccessAck == JObj([k \in {"success"} |-> [t |-> "bool", b |-> TRUE]])

\* ------------------------------------------------------------ HTTP bodies
\* a response body as sent by the device: JSON text or other text
JsonBody(v) == [kind |-> "json", v |-> v]

TextBody(s) == [kind |-> "text", s |-> s]

\* Response::json::<Value>() on a body that was read: the value, or an error
ParseJson(b) == IF b.kind = "json" THEN Some(b.v) ELSE None

\* the outcome of reading a body when the transfer fails or times out
ReadErr == [kind |-> "readerr"]

\* Response::json() on the outcome of the body read
JsonOf(bodyRead) == IF bodyRead = ReadErr THEN None ELSE ParseJson(bodyRead)

\* Response::text().await.unwrap_or_default(): the text, or "" on an error
TextOrDefault(bodyRead) == IF bodyRead = ReadErr THEN TextBody("") ELSE bodyRead

\* StatusCode::is_success(): 200..=299
is_success(status) == status >= 200 /\ status <= 299

\* ---------------------------------------------------------- error strings
\* a formatted string is the sequence of its pieces
Lit(s) == [k |-> "lit", s |-> s]

StatusPiece(code) == [k |-> "status", code |-> code]

TextPiece(b) == [k |-> "text", b |-> b]

StrPiece(s) == [k |-> "str", s |-> s]

TransportPiece(e) == [k |-> "transport", e |-> e]

Ok(v) == [ok |-> TRUE, val |-> v]

Err(pieces) == [ok |-> FALSE, err |-> pieces]

\* format!("Failed to connect to miner at {}", ip)
ConnectionExhausted(ip) == Err(<<Lit("Failed to connect to miner at "), StrPiece(ip)>>)

\* format!("Miner restart failed with status: {}", response.status())
RestartStatusErr(status) ==
    Err(<<Lit("Miner restart failed with status: "), StatusPiece(status)>>)

\* format!("Failed to update settings ({})", status): the body left out
SettingsUpdateFailedStatusOnly(status, text) ==
    Err(<<Lit("Failed to update settings ("), StatusPiece(status), Lit(")")>>)

\* format!("Failed to update settings ({}): {}", status, error_text)
SettingsUpdateFailed(status, text) ==
    Err(<<Lit("Failed to update settings ("), StatusPiece(status), Lit("): "), TextPiece(text)>>)

\* send().await.map_err(|e| e.to_string())
TransportErr(e) == Err(<<TransportPiece(e)>>)

\* "Invalid subnet format. Expected format: 192.168.1"
InvalidFormat == Err(<<Lit("Invalid subnet format. Expected format: 192.168.1")>>)

\* format!("Invalid subnet octet: {}", part)
InvalidOctet(part) == Err(<<Lit("Invalid subnet octet: "), StrPiece(part)>>)

\* ------------------------------------------------------------------ tasks
\* One task is one future: a discovery probe of scan_network, or the body
\* of one of the three single-target commands.
\*   pc     "created" (not yet polled), "send" (awaiting send()),
\*          "body" (awaiting json() or text()), "done"
\*   idx    index in the path list of the request last sent
\*   status the status of the response whose body is awaited
\*   sent   the requests sent so far, in order
\*   out    the value the future resolved to
\* and, written by the environment only, what the device did:
\*   hist   how each exchange ended: "transport", "status" (a status outside
\*          the success range), "badbody" (success status, body not read or
\*          not JSON) or "ok" (success status, JSON body)
\*   resp   the last response
Pending == [pending |-> TRUE]

NoBody == [kind |-> "none"]

NoResp == [status |-> 0, e |-> "", body |-> NoBody]

\* the api_paths vector of get_miner_data, lines 35-39
FetchPaths == <<"/api/system/info", "/api/system", "/api/swarm/info">>

\* a discovery list with a third path
DiscoveryPathsThree == <<"/api/system/info", "/api/system", "/api/swarm/info">>

\* the api_paths vector of check_miner_at_ip, lines 247-250
DiscoveryPaths == <<"/api/system/info", "/api/system">>

ApiPaths(kind) ==
    CASE kind = "fetch"    -> FetchPaths
      [] kind = "discover" -> DiscoveryPaths
      [] kind = "restart"  -> <<"/api/system/restart">>
      [] kind = "update"   -> <<"/api/system">>

Method(kind) ==
    CASE kind = "fetch"    -> "GET"
      [] kind = "discover" -> "GET"
      [] kind = "restart"  -> "POST"
      [] kind = "update"   -> "PATCH"

\* format!("http://{}{}", ip, path) and the request built on it
Request(kind, ip, path, payload) ==
    [method |-> Method(kind), host |-> ip, path |-> path, json |-> payload]

NewTask(kind, ip, payload) ==
    [kind |-> kind, ip |-> ip, payload |-> payload, pc |-> "created", idx |-> 0,
     status |-> 0, sent |-> <<>>, out |-> Pending, hist |-> <<>>, resp |-> NoResp]

\* client.get(&url).send(): the request to the next path of the list leaves
SendNext(t) ==
    [t EXCEPT !.pc = "send", !.idx = t.idx + 1, !.status = 0,
              !.sent = Append(t.sent,
                  Request(t.kind, t.ip, ApiPaths(t.kind)[t.idx + 1], t.payload))]

\* return: the future resolves to out
Return(t, out) == [t EXCEPT !.pc = "done", !.status = 0, !.out = out]

\* `continue`, or the end of the loop body: the next path if there is one,
\* else the statement after the loop
Continue(t, exhausted) ==
    IF t.idx < Len(ApiPaths(t.kind)) THEN SendNext(t) ELSE Return(t, exhausted)

\* response.status().is_success() holds: json() is awaited next
AwaitBody(t, status) == [t EXCEPT !.pc = "body", !.status = status]

\* events of the environment: the outcome of send(), of json() or text()
SendErr(e) == [ev |-> "send", ok |-> FALSE, e |-> e]

SendOk(status) == [ev |-> "send", ok |-> TRUE, status |-> status]

BodyRead(b) == [ev |-> "body", read |-> b]

\* get_miner_data where a parsed body does not return: the loop goes on
get_miner_data_no_return(t, e) ==
    IF e.ev = "send"
    THEN IF ~e.ok THEN Continue(t, ConnectionExhausted(t.ip))
         ELSE IF is_success(e.status) THEN AwaitBody(t, e.status)
         ELSE Continue(t, ConnectionExhausted(t.ip))
    ELSE Continue(t, IF JsonOf(e.read).some THEN Ok(JsonOf(e.read).v)
                     ELSE ConnectionExhausted(t.ip))

\* get_miner_data where send().await? surfaces the transport error
get_miner_data_propagate(t, e) ==
    IF e.ev = "send"
    THEN IF ~e.ok THEN Return(t, TransportErr(e.e))
         ELSE IF is_success(e.status) THEN AwaitBody(t, e.status)
         ELSE Continue(t, ConnectionExhausted(t.ip))
    ELSE IF JsonOf(e.read).some THEN Return(t, Ok(JsonOf(e.read).v))
         ELSE Continue(t, ConnectionExhausted(t.ip))

\* get_miner_data, lines 41-56, from one await to the next
get_miner_data_on(t, e) ==
    IF e.ev = "send"
    THEN IF ~e.ok THEN Continue(t, ConnectionExhausted(t.ip))
         ELSE IF is_success(e.status) THEN AwaitBody(t, e.status)
         ELSE Continue(t, ConnectionExhausted(t.ip))
    ELSE IF JsonOf(e.read).some THEN Return(t, Ok(JsonOf(e.read).v))
         ELSE Continue(t, ConnectionExhausted(t.ip))

\* check_miner_at_ip where a body that is no JSON ends the probe
check_miner_at_ip_abort(t, e) ==
    IF e.ev = "send"
    THEN IF ~e.ok THEN Continue(t, None)
         ELSE IF is_success(e.status) THEN AwaitBody(t, e.status)
         ELSE Continue(t, None)
    ELSE IF JsonOf(e.read).some
         THEN Return(t, Some(ExtractMiner(t.ip, JsonOf(e.read).v)))
         ELSE Return(t, None)

\* check_miner_at_ip where a body without a miner's fields is no miner
check_miner_at_ip_picky(t, e) ==
    IF e.ev = "send"
    THEN IF ~e.ok THEN Continue(t, None)
         ELSE IF is_success(e.status) THEN AwaitBody(t, e.status)
         ELSE Continue(t, None)
    ELSE IF JsonOf(e.read).some
            /\ \/ Get(JsonOf(e.read).v, "hostname").some
               \/ Get(JsonOf(e.read).v, "ASICModel").some
         THEN Return(t, Some(ExtractMiner(t.ip, JsonOf(e.read).v)))
         ELSE Continue(t, None)

\* check_miner_at_ip, lines 252-282, from one await to the next
check_miner_at_ip_on(t, e) ==
    IF e.ev = "send"
    THEN IF ~e.ok THEN Continue(t, None)
         ELSE IF is_success(e.status) THEN AwaitBody(t, e.status)
         ELSE Continue(t, None)
    ELSE IF JsonOf(e.read).some
         THEN Return(t, Some(ExtractMiner(t.ip, JsonOf(e.read).v)))
         ELSE Continue(t, None)

\* restart_miner where json().await? surfaces the parse error
restart_miner_strict(t, e) ==
    IF e.ev = "send"
    THEN IF ~e.ok THEN Return(t, TransportErr(e.e))
         ELSE IF is_success(e.status) THEN AwaitBody(t, e.status)
         ELSE Return(t, RestartStatusErr(e.status))
    ELSE IF JsonOf(e.read).some THEN Return(t, Ok(JsonOf(e.read).v))
         ELSE Return(t, Err(<<Lit("error decoding response body")>>))

\* restart_miner where every status below 400 counts as a success
restart_miner_lenient(t, e) ==
    IF e.ev = "send"
    THEN IF ~e.ok THEN Return(t, TransportErr(e.e))
         ELSE IF e.status < 400 THEN AwaitBody(t, e.status)
         ELSE Return(t, RestartStatusErr(e.status))
    ELSE IF JsonOf(e.read).some THEN Return(t, Ok(JsonOf(e.read).v))
         ELSE Return(t, Ok(SuccessAck))

\* restart_miner, lines 69-82, from one await to the next
restart_miner_on(t, e) ==
    IF e.ev = "send"
    THEN IF ~e.ok THEN Return(t, TransportErr(e.e))
         ELSE IF is_success(e.status) THEN AwaitBody(t, e.status)
         ELSE Return(t, RestartStatusErr(e.status))
    ELSE IF JsonOf(e.read).some THEN Return(t, Ok(JsonOf(e.read).v))
         ELSE Return(t, Ok(SuccessAck))

\* update_miner_settings where a transport failure is retried once
update_miner_settings_retry(t, e) ==
    IF e.ev = "send"
    THEN IF ~e.ok
         THEN IF Len(t.sent) < 2
              THEN [t EXCEPT !.sent = Append(t.sent, t.sent[1])]
              ELSE Return(t, TransportErr(e.e))
         ELSE AwaitBody(t, e.status)
    ELSE IF is_success(t.status)
         THEN IF JsonOf(e.read).some THEN Return(t, Ok(JsonOf(e.read).v))
              ELSE Return(t, Ok(SuccessAck))
         ELSE Return(t, SettingsUpdateFailed(t.status, TextOrDefault(e.read)))

\* update_miner_settings, lines 226-242, from one await to the next
update_miner_settings_on(t, e) ==
    IF e.ev = "send"
    THEN IF ~e.ok THEN Return(t, TransportErr(e.e))
         ELSE AwaitBody(t, e.status)
    ELSE IF is_success(t.status)
         THEN IF JsonOf(e.read).some THEN Return(t, Ok(JsonOf(e.read).v))
              ELSE Return(t, Ok(SuccessAck))
         ELSE Return(t, SettingsUpdateFailed(t.status, TextOrDefault(e.read)))

\* the code that runs when an awaited request of task t makes progress
TaskOn(t, e) ==
    CASE t.kind = "fetch"    -> get_miner_data_on(t, e)
      [] t.kind = "discover" -> check_miner_at_ip_on(t, e)
      [] t.kind = "restart"  -> restart_miner_on(t, e)
      [] t.kind = "update"   -> update_miner_settings_on(t, e)

\* ------------------------------------------------- what the device did
\* A response is in the success range when its status is 2xx.
SuccessRange(status) == status \in 200..299

\* a body that arrived whole and is JSON text
Parseable(read) == read.kind = "json"

\* what is kept of a response: all of it for restart and update, the body
\* of a hit for a probing task, nothing of a miss of a probing task
Kept(kind, how, resp) ==
    IF kind \in {"restart", "update"} THEN resp
    ELSE IF how = "ok" THEN [NoResp EXCEPT !.body = resp.body]
    ELSE NoResp

Note(t, how, resp) ==
    [t EXCEPT !.hist = Append(t.hist, how), !.resp = Kept(t.kind, how, resp)]

\* the record of event e on the task whose record was t before the event
Observe(t, new, e) ==
    IF e.ev = "send"
    THEN IF ~e.ok THEN Note(new, "transport", [NoResp EXCEPT !.e = e.e])
         ELSE IF SuccessRange(e.status)
              THEN [new EXCEPT !.resp = [NoResp EXCEPT !.status = e.status]]
              ELSE Note(new, "status", [NoResp EXCEPT !.status = e.status])
    ELSE IF SuccessRange(t.resp.status)
         THEN Note(new, IF Parseable(e.read) THEN "ok" ELSE "badbody",
                   [t.resp EXCEPT !.body = e.read])
         ELSE [new EXCEPT !.resp = [t.resp EXCEPT !.body = e.read]]

\* ----------------------------------------------------------- scan_network
\* the index of the first part that does not parse as a u8, 0 if none
FirstBadPart(parts) ==
    IF \E i \in 1..Len(parts) : parse_u8(parts[i]) = ParseErr
    THEN CHOOSE i \in 1..Len(parts) :
            /\ parse_u8(parts[i]) = ParseErr
            /\ \A j \in 1..(i - 1) : parse_u8(parts[j]) # ParseErr
    ELSE 0

\* lines 289-299: Ok(()) or the error scan_network returns before any I/O
ValidateSubnet(subnet) ==
    LET parts == split(subnet) IN
    IF Len(parts) # 3 THEN InvalidFormat
    ELSE IF FirstBadPart(parts) # 0 THEN InvalidOctet(parts[FirstBadPart(parts)])
    ELSE Ok(<<>>)

\* the values of `for i in start..end`: the end is left out
RECURSIVE RangeExclusive(_, _)
RangeExclusive(start, end) ==
    IF start >= end THEN <<>>
    ELSE <<start>> \o RangeExclusive(start + 1, end)

\* a range that counts down when start > end
RECURSIVE RangeEitherWay(_, _)
RangeEitherWay(start, end) ==
    IF start = end THEN <<start>>
    ELSE IF start < end THEN <<start>> \o RangeEitherWay(start + 1, end)
    ELSE <<start>> \o RangeEitherWay(start - 1, end)

\* the values of `for i in start..=end` over u8, in order
RECURSIVE RangeInclusive(_, _)
RangeInclusive(start, end) ==
    IF start > end THEN <<>>
    ELSE IF start = end THEN <<start>>
    ELSE <<start>> \o RangeInclusive(start + 1, end)

NoPayload == [none |-> TRUE]

\* lines 308-317: one future per address, none of them polled yet
ScanTasks(subnet, start, end) ==
    LET r == RangeInclusive(start, end) IN
    [k \in 1..Len(r) |-> NewTask("discover", FormatIp(subnet, r[k]), NoPayload)]

\* join_all is ready when every future has resolved
JoinReady(ts) == \A k \in 1..Len(ts) : ts[k].pc = "done"

\* the outputs of the futures, the last future first
JoinOutputsReversed(ts) == [k \in 1..Len(ts) |-> ts[Len(ts) + 1 - k].out]

\* join_all's output: the outputs of the futures in the order of the futures
JoinOutputs(ts) == [k \in 1..Len(ts) |-> ts[k].out]

\* the Some values up to the first None
RECURSIVE TakeWhileSome(_)
TakeWhileSome(rs) ==
    IF rs = <<>> THEN <<>>
    ELSE IF Head(rs).some THEN <<Head(rs).v>> \o TakeWhileSome(Tail(rs))
    ELSE <<>>

\* results.into_iter().flatten().collect(): the Some values, order kept
RECURSIVE Flatten(_)
Flatten(rs) ==
    IF rs = <<>> THEN <<>>
    ELSE IF Head(rs).some THEN <<Head(rs).v>> \o Flatten(Tail(rs))
    ELSE Flatten(Tail(rs))

\* ------------------------------------------------------------------ inputs
\* texts of one dot-separated part of a subnet argument
MaxPart == <<"2", "5", "5">>

\* texts that are no octet
BadParts == {<<"2", "5", "6">>, <<"a">>, <<"+", "1">>, <<"-", "1">>, <<>>}

PartInputs == BadParts \cup {<<"7">>, MaxPart}

Dotted3(a, b, c) == a \o <<".">> \o b \o <<".">> \o c

\* subnet arguments: three parts with the first drawn from PartInputs or
\* the second or third from BadParts, and strings with one, two and four
\* parts
SubnetInputs ==
    {Dotted3(p, MaxPart, MaxPart) : p \in PartInputs}
    \cup {Dotted3(MaxPart, p, MaxPart) : p \in BadParts \ {<<"+", "1">>}}
    \cup {Dotted3(MaxPart, MaxPart, p) : p \in BadParts \ {<<"+", "1">>}}
    \cup {<<>>, MaxPart, MaxPart \o <<".">> \o MaxPart,
          Dotted3(MaxPart, MaxPart, MaxPart) \o <<".">> \o MaxPart,
          Dotted3(MaxPart, MaxPart, MaxPart) \o <<".">>}

\* last octets at both ends of the u8 range
EdgeOctets == (0..(MaxProbes - 1)) \cup ((U8Max - MaxProbes + 1)..U8Max)

\* (start, end) arguments: every pair of edge octets that spans at most
\* MaxProbes addresses, the pairs with start > end included
RangeInputs ==
    {r \in EdgeOctets \X EdgeOctets : r[2] - r[1] + 1 <= MaxProbes}

\* ip arguments of the single-target commands
IpInputs == {<<"1", "0", ".", "0", ".", "0", ".", "7">>, <<"m", "1">>}

FrequencyInputs == {400, 485}

CoreVoltageInputs == {1200}

\* what the environment can answer
TransportErrors == {"connect", "timeout"}

Statuses == {200, 299, 300, 404}

MinerFull ==
    JObj([hostname |-> JStr("miner1"), version |-> JStr("v2"),
          axeOSVersion |-> JStr("2.1"), ASICModel |-> JStr("BM1397")])

MinerFallback ==
    JObj([hostname |-> JStr("miner1"), axeOSVersion |-> JStr("2.1"),
          ASICModel |-> JStr("BM1397")])

EmptyObject == JObj([k \in {} |-> JNum])

\* the JSON bodies of the devices of Spec; ExtractSpec has them all
JsonInputs == {MinerFull, MinerFallback, EmptyObject}

BodyInputs ==
    {JsonBody(v) : v \in JsonInputs} \cup {TextBody(""), TextBody("bad core voltage")}

\* ------------------------------------------------------------------- state
VARIABLES
    pc,      \* "idle", "join" (scan futures built), "running", "returned"
    call,    \* the command invoked and its arguments
    tasks,   \* the futures of the call
    result   \* what the command returned to its caller

vars == <<pc, call, tasks, result>>

NoCall == [op |-> "none"]

NoResult == [pending |-> TRUE]

Init ==
    /\ pc = "idle"
    /\ call = NoCall
    /\ tasks = <<>>
    /\ result = NoResult

\* a single-target command runs to its first await: the request is sent
StartCommand(kind, ip, payload) ==
    /\ pc = "idle"
    /\ pc' = "running"
    /\ call' = [op |-> kind, ip |-> ip, payload |-> payload]
    /\ tasks' = <<SendNext(NewTask(kind, ip, payload))>>
    /\ UNCHANGED result

get_miner_data == \E ip \in IpInputs : StartCommand("fetch", ip, NoPayload)

restart_miner == \E ip \in IpInputs : StartCommand("restart", ip, NoPayload)

update_miner_settings ==
    \E ip \in IpInputs, f \in FrequencyInputs, v \in CoreVoltageInputs :
        StartCommand("update", ip, [frequency |-> f, coreVoltage |-> v])

\* scan_network, lines 287-317: validation, then the futures are built
scan_network ==
    \E subnet \in SubnetInputs, r \in RangeInputs :
        /\ pc = "idle"
        /\ call' = [op |-> "scan", subnet |-> subnet, start |-> r[1], end |-> r[2]]
        /\ IF ValidateSubnet(subnet).ok
           THEN /\ pc' = "join"
                /\ tasks' = ScanTasks(subnet, r[1], r[2])
                /\ UNCHANGED result
           ELSE /\ pc' = "returned"
                /\ tasks' = <<>>
                /\ result' = ValidateSubnet(subnet)

\* a join that polls one future at a time: only the first future starts
join_all_one_at_a_time ==
    /\ pc = "join"
    /\ pc' = "running"
    /\ tasks' = [k \in 1..Len(tasks) |-> IF k = 1 THEN SendNext(tasks[k]) ELSE tasks[k]]
    /\ UNCHANGED <<call, result>>

\* join_all(tasks).await, first poll: every future runs to its first await
join_all ==
    /\ pc = "join"
    /\ pc' = "running"
    /\ tasks' = [k \in 1..Len(tasks) |-> SendNext(tasks[k])]
    /\ UNCHANGED <<call, result>>

\* task t after event e: the code ran on, the event is on record
Step(t, e) == Observe(t, TaskOn(t, e), e)

\* an awaited request of task k makes progress and the task runs on to its
\* next await or to its end; a single-target command returns with its task
Progress(k, e) ==
    /\ tasks' = [tasks EXCEPT ![k] = Step(tasks[k], e)]
    /\ IF call.op # "scan" /\ tasks'[k].pc = "done"
       THEN pc' = "returned" /\ result' = tasks'[k].out
       ELSE UNCHANGED <<pc, result>>
    /\ UNCHANGED call

\* send().await of task k resolves: a transport error or the status line
SendResolvesAt(k) ==
    /\ pc = "running"
    /\ k \in 1..Len(tasks)
    /\ tasks[k].pc = "send"
    /\ \E e \in {SendErr(x) : x \in TransportErrors} \cup {SendOk(x) : x \in Statuses} :
          Progress(k, e)

SendResolves == \E k \in 1..Len(tasks) : SendResolvesAt(k)

\* json().await or text().await of task k resolves: a read error or the body
BodyResolvesAt(k) ==
    /\ pc = "running"
    /\ k \in 1..Len(tasks)
    /\ tasks[k].pc = "body"
    /\ \E b \in BodyInputs \cup {ReadErr} : Progress(k, BodyRead(b))

BodyResolves == \E k \in 1..Len(tasks) : BodyResolvesAt(k)

\* a scan that fails when a probe found nothing
scan_return_strict ==
    /\ pc = "running"
    /\ call.op = "scan"
    /\ JoinReady(tasks)
    /\ pc' = "returned"
    /\ result' = IF \E k \in 1..Len(tasks) : ~tasks[k].out.some
                 THEN Err(<<Lit("no miner at "), StrPiece(call.subnet)>>)
                 ELSE Ok(Flatten(JoinOutputs(tasks)))
    /\ UNCHANGED <<call, tasks>>

\* a scan that returns what has been found as soon as one probe resolved
scan_return_first ==
    /\ pc = "running"
    /\ call.op = "scan"
    /\ \E k \in 1..Len(tasks) : tasks[k].pc = "done"
    /\ pc' = "returned"
    /\ result' = Ok(Flatten(JoinOutputs(SelectSeq(tasks, LAMBDA t : t.pc = "done"))))
    /\ UNCHANGED <<call, tasks>>

\* lines 320-325: join_all is ready, the records are collected and returned
scan_return ==
    /\ pc = "running"
    /\ call.op = "scan"
    /\ JoinReady(tasks)
    /\ pc' = "returned"
    /\ result' = Ok(Flatten(JoinOutputs(tasks)))
    /\ UNCHANGED <<call, tasks>>

Next ==
    \/ get_miner_data
    \/ restart_miner
    \/ update_miner_settings
    \/ scan_network
    \/ join_all
    \/ SendResolves
    \/ BodyResolves
    \/ scan_return

Spec == Init /\ [][Next]_vars

\* Every request completes, with a response, a transport error or a
\* timeout, and the executor polls every future that can make progress.
FairSpec ==
    /\ Spec
    /\ WF_vars(join_all)
    /\ WF_vars(scan_return)
    /\ \A k \in 1..MaxProbes : WF_vars(SendResolvesAt(k)) /\ WF_vars(BodyResolvesAt(k))

\* ------------------------------------------- the extraction on its own
\* Every JSON value over the four keys check_miner_at_ip reads: each key
\* missing, a number or a string; and values that are no object.
ExtractKeys == {"hostname", "version", "axeOSVersion", "ASICModel"}

StringAt(key) ==
    CASE key = "hostname"     -> "miner1"
      [] key = "version"      -> "v2"
      [] key = "axeOSVersion" -> "2.1"
      [] key = "ASICModel"    -> "BM1397"

AllObjects ==
    UNION {{JObj([k \in D |-> IF k \in S THEN JStr(StringAt(k)) ELSE JNum]) :
                S \in SUBSET D} : D \in SUBSET ExtractKeys}

AllJson == AllObjects \cup {JArr, JNum, JStr("miner1")}

\* what came before the hit: nothing, or a miss on the first path
Preludes == {<<>>, <<SendErr("connect")>>, <<SendOk(404)>>, <<SendOk(200), BodyRead(ReadErr)>>}

RECURSIVE StepAll(_, _)
StepAll(t, es) == IF es = <<>> THEN t ELSE StepAll(Step(t, Head(es)), Tail(es))

\* a scan of one address whose probe is answered, after the prelude, with
\* a success status and the JSON body j: the probe runs to its return
probe_answered ==
    \E i \in {0, U8Max}, pre \in Preludes, st \in {200, 299}, j \in AllJson :
        LET subnet == Dotted3(<<"7">>, MaxPart, MaxPart)
            t0 == SendNext(ScanTasks(subnet, i, i)[1])
        IN  /\ pc = "idle"
            /\ ValidateSubnet(subnet).ok
            /\ pc' = "running"
            /\ call' = [op |-> "scan", subnet |-> subnet, start |-> i, end |-> i]
            /\ tasks' = <<StepAll(t0, pre \o <<SendOk(st), BodyRead(JsonBody(j))>>)>>
            /\ UNCHANGED result

ExtractNext == probe_answered \/ scan_return

ExtractSpec == Init /\ [][ExtractNext]_vars

\* ======================================================== properties
\* Notions of the specification, stated without the operators of the code.

\* the position of the j-th dot of s
NthDot(s, j) ==
    CHOOSE i \in 1..Len(s) :
        s[i] = "." /\ Cardinality({m \in 1..i : s[m] = "."}) = j

DotCount(s) == Cardinality({i \in 1..Len(s) : s[i] = "."})

\* the j-th dot-separated part of s, j in 1..DotCount(s)+1
PartOf(s, j) ==
    LET from == IF j = 1 THEN 1 ELSE NthDot(s, j - 1) + 1
        to   == IF j = DotCount(s) + 1 THEN Len(s) ELSE NthDot(s, j) - 1
    IN SubSeq(s, from, to)

AllDigits(p) == Len(p) > 0 /\ \A i \in 1..Len(p) : p[i] \in Digits

\* the number a digit string denotes, of any size
RECURSIVE DecValue(_)
DecValue(p) ==
    IF p = <<>> THEN 0
    ELSE DecValue(SubSeq(p, 1, Len(p) - 1)) * 10 + DigitVal(p[Len(p)])

\* an octet: decimal digits that denote a number of at most 255
IsOctet(p) == AllDigits(p) /\ DecValue(p) <= 255

\* a valid subnet: exactly three dot-separated octets
WellFormedSubnet(s) ==
    DotCount(s) + 1 = 3 /\ \A j \in 1..3 : IsOctet(PartOf(s, j))

\* a malformed subnet: a wrong number of parts, a non-numeric part, or a
\* part greater than 255
MalformedSubnet(s) ==
    \/ DotCount(s) + 1 # 3
    \/ \E j \in 1..(DotCount(s) + 1) : ~AllDigits(PartOf(s, j))
    \/ \E j \in 1..(DotCount(s) + 1) :
          AllDigits(PartOf(s, j)) /\ DecValue(PartOf(s, j)) > 255

\* the address {subnet}.{i}
Address(subnet, i) ==
    subnet \o <<".">> \o
        (IF i < 10 THEN <<DigitChar(i)>>
         ELSE IF i < 100 THEN <<DigitChar(i \div 10), DigitChar(i % 10)>>
         ELSE <<DigitChar(i \div 100), DigitChar((i \div 10) % 10), DigitChar(i % 10)>>)

MissKinds == {"transport", "status", "badbody"}

TaskIds == 1..Len(tasks)

IsScan == call.op = "scan"

ValidScan == IsScan /\ WellFormedSubnet(call.subnet)

\* the error scan_network answers a malformed subnet with
IsMalformedSubnetError(r) ==
    /\ ~r.ok
    /\ r.err[1] \in {Lit("Invalid subnet format. Expected format: 192.168.1"),
                     Lit("Invalid subnet octet: ")}

Contains(pieces, piece) == \E i \in 1..Len(pieces) : pieces[i] = piece

\* ---------------------------------------------------------------------
\* C1: for a valid subnet and start <= end, once the scan has reached its
\* join there are exactly end-start+1 discovery probes, every one of them
\* invoked, exactly one for each address {subnet}.{i} with i in
\* [start,end], none for another address, and every request of a probe
\* goes to the probe's own address.
C1_OneProbePerAddress ==
    (pc \in {"running", "returned"} /\ ValidScan /\ call.start <= call.end) =>
        /\ Len(tasks) = call.end - call.start + 1
        /\ \A i \in call.start..call.end :
              Cardinality({k \in TaskIds :
                  /\ tasks[k].kind = "discover"
                  /\ tasks[k].pc # "created"
                  /\ tasks[k].ip = Address(call.subnet, i)}) = 1
        /\ \A k \in TaskIds :
              /\ \E i \in call.start..call.end : tasks[k].ip = Address(call.subnet, i)
              /\ \A j \in 1..Len(tasks[k].sent) : tasks[k].sent[j].host = tasks[k].ip

\* a scan of two addresses ending at 255 is under way
C1_Witness ==
    /\ pc = "running" /\ ValidScan
    /\ call.start < call.end /\ call.end = 255
    /\ Len(tasks) = 2
    /\ \A k \in TaskIds : tasks[k].sent # <<>>

\* ---------------------------------------------------------------------
\* C2: a scan with a malformed subnet has returned the MalformedSubnet
\* error, built no probe and sent no request.
C2_MalformedRejected ==
    (IsScan /\ MalformedSubnet(call.subnet)) =>
        /\ pc = "returned"
        /\ IsMalformedSubnetError(result)
        /\ tasks = <<>>

\* ---------------------------------------------------------------------
\* C3: in a discovery probe whose first path missed, the second path has
\* been requested; and when the second path then answered with a success
\* status and a JSON body, the probe returned the record built from that
\* body for the probe's address.
C3_SecondPathHit ==
    \A k \in TaskIds :
        (tasks[k].kind = "discover" /\ tasks[k].hist # <<>>
            /\ tasks[k].hist[1] \in MissKinds) =>
            /\ Len(tasks[k].sent) = 2
            /\ tasks[k].sent[2].path = "/api/system"
            /\ (Len(tasks[k].hist) = 2 /\ tasks[k].hist[2] = "ok") =>
                  /\ tasks[k].pc = "done"
                  /\ Parseable(tasks[k].resp.body)
                  /\ tasks[k].out = Some(ExtractMiner(tasks[k].ip, tasks[k].resp.body.v))
                  /\ tasks[k].out.v.ip = tasks[k].ip

\* one probe hit on path 2 after an unparseable body on path 1, another
\* after a non-success status on path 1
C3_Witness ==
    \E k \in TaskIds, m \in TaskIds :
        /\ tasks[k].kind = "discover" /\ tasks[k].hist = <<"badbody", "ok">>
        /\ tasks[k].out.some
        /\ tasks[m].kind = "discover" /\ tasks[m].hist = <<"status", "ok">>
        /\ tasks[m].out.some

\* ---------------------------------------------------------------------
\* C4: in a probe of get_miner_data or check_miner_at_ip the requests are
\* GETs to the paths of the list in list order, at most one request has
\* no outcome yet, every request but the last ended as a miss, and no
\* request follows a hit.
C4_SequentialInOrder ==
    \A k \in TaskIds :
        tasks[k].kind \in {"fetch", "discover"} =>
            LET t == tasks[k]
                paths == IF t.kind = "fetch"
                         THEN <<"/api/system/info", "/api/system", "/api/swarm/info">>
                         ELSE <<"/api/system/info", "/api/system">>
            IN  /\ Len(t.sent) <= Len(paths)
                /\ \A j \in 1..Len(t.sent) :
                      t.sent[j].method = "GET" /\ t.sent[j].path = paths[j]
                /\ Len(t.sent) - Len(t.hist) \in {0, 1}
                /\ \A j \in 1..(Len(t.sent) - 1) : t.hist[j] \in MissKinds
                /\ \A j \in 1..Len(t.hist) : t.hist[j] = "ok" => Len(t.sent) = j

\* the third request of get_miner_data is in flight after two misses
C4_Witness ==
    \E k \in TaskIds :
        /\ tasks[k].kind = "fetch"
        /\ Len(tasks[k].sent) = 3
        /\ Len(tasks[k].hist) = 2
        /\ tasks[k].pc = "send"

\* ---------------------------------------------------------------------
\* C5: get_miner_data returns Ok exactly when some path was a hit, then
\* with the JSON of that hit, the first hit in the order /api/system/info,
\* /api/system, /api/swarm/info; it returns the ConnectionExhausted error
\* with the address exactly when all three paths were requested and
\* missed; it returns nothing else, and not before one of the two.
C5_FetchStatus ==
    \A k \in TaskIds :
        tasks[k].kind = "fetch" =>
            LET t == tasks[k]
                hit == t.hist # <<>> /\ t.hist[Len(t.hist)] = "ok"
                exhausted == Len(t.hist) = 3 /\ \A j \in 1..3 : t.hist[j] \in MissKinds
            IN  /\ hit => /\ pc = "returned"
                          /\ result = Ok(t.resp.body.v)
                          /\ Parseable(t.resp.body)
                          /\ \A j \in 1..(Len(t.hist) - 1) : t.hist[j] \in MissKinds
                /\ exhausted =>
                      /\ pc = "returned"
                      /\ result = Err(<<Lit("Failed to connect to miner at "), StrPiece(call.ip)>>)
                      /\ [j \in 1..3 |-> t.sent[j].path]
                            = <<"/api/system/info", "/api/system", "/api/swarm/info">>
                /\ pc = "returned" => (hit \/ exhausted)
                /\ (pc = "returned" /\ ~result.ok) => exhausted
                /\ \A j \in 1..Len(t.sent) : t.sent[j].host = call.ip

\* the third path answered after a transport failure and a bad body
C5_Witness ==
    /\ call.op = "fetch" /\ pc = "returned"
    /\ tasks[1].hist = <<"transport", "badbody", "ok">>
    /\ result.ok /\ result.val = MinerFallback

\* ---------------------------------------------------------------------
\* C6: a scan of a valid subnet that has returned has returned Ok, and
\* the empty list when no probe of the range was answered with a hit.
C6_ScanNeverFails ==
    (pc = "returned" /\ ValidScan) =>
        /\ result.ok
        /\ (\A k \in TaskIds : \A j \in 1..Len(tasks[k].hist) :
               tasks[k].hist[j] \in MissKinds) => result = Ok(<<>>)

\* two addresses missed on both paths, in four different ways
C6_Witness ==
    /\ pc = "returned" /\ ValidScan /\ Len(tasks) = 2
    /\ tasks[1].hist = <<"transport", "status">>
    /\ tasks[2].hist = <<"badbody", "transport">>
    /\ result = Ok(<<>>)

\* ---------------------------------------------------------------------
\* C7: the list a scan of a valid subnet returned has a record with
\* address a exactly when a is {subnet}.{i} for an i in [start,end] whose
\* probe was answered with a hit; that record is the one the probe
\* returned, and there is one record per such address.
C7_ListIsTheHits ==
    (pc = "returned" /\ ValidScan) =>
        LET recs == result.val
            inRange(a) == \E i \in call.start..call.end : a = Address(call.subnet, i)
            hitAt(a) == \E k \in TaskIds :
                           /\ tasks[k].ip = a
                           /\ \E j \in 1..Len(tasks[k].hist) : tasks[k].hist[j] = "ok"
            addrs == {tasks[k].ip : k \in TaskIds} \cup {recs[n].ip : n \in 1..Len(recs)}
                        \cup {Address(call.subnet, i) : i \in call.start..call.end}
        IN  /\ \A a \in addrs :
                  (\E n \in 1..Len(recs) : recs[n].ip = a) <=> (inRange(a) /\ hitAt(a))
            /\ \A n \in 1..Len(recs) :
                  \E k \in TaskIds : tasks[k].out = Some(recs[n])
            /\ \A n, m \in 1..Len(recs) : recs[n].ip = recs[m].ip => n = m

\* of two addresses the first missed and the second was a hit
C7_Witness ==
    /\ pc = "returned" /\ ValidScan /\ Len(tasks) = 2
    /\ ~tasks[1].out.some /\ tasks[2].out.some
    /\ Len(result.val) = 1
    /\ result.val[1].ip = tasks[2].ip

\* ---------------------------------------------------------------------
\* C8: a scan has returned nothing while one of its probes is not
\* finished; what it returns it returns when every probe has resolved, to
\* a record or to no record, as the list of all the records; and once it
\* has returned, neither the result nor a probe changes.
C8_JoinAllBarrier ==
    /\ [](IsScan =>
            /\ (\E k \in TaskIds : tasks[k].pc # "done") =>
                  (result = NoResult /\ pc # "returned")
            /\ (pc = "returned" /\ ValidScan) =>
                  /\ \A k \in TaskIds :
                        /\ Len(tasks[k].sent) = Len(tasks[k].hist)
                        /\ tasks[k].out # Pending
                  /\ Len(result.val) = Cardinality({k \in TaskIds : tasks[k].out.some}))
    /\ [][(IsScan /\ result # NoResult) => (result' = result /\ tasks' = tasks)]_vars

\* a scan returned after one probe resolved to a record on its first
\* path and the other to no record after two misses
C8_Witness ==
    /\ pc = "returned" /\ ValidScan /\ Len(tasks) = 2
    /\ Len(tasks[1].hist) = 1 /\ tasks[1].out.some
    /\ Len(tasks[2].hist) = 2 /\ ~tasks[2].out.some

\* ---------------------------------------------------------------------
\* C9: restart_miner and update_miner_settings, answered with a success
\* status, return Ok: the JSON of the body when the body is JSON, and
\* {"success": true} when it is not (empty, other text, or not read).
C9_BodyTolerantSuccess ==
    \A k \in TaskIds :
        (tasks[k].kind \in {"restart", "update"} /\ tasks[k].hist # <<>>
            /\ SuccessRange(tasks[k].resp.status)) =>
            /\ pc = "returned"
            /\ result.ok
            /\ IF Parseable(tasks[k].resp.body)
               THEN tasks[k].hist = <<"ok">> /\ result.val = tasks[k].resp.body.v
               ELSE /\ tasks[k].hist = <<"badbody">>
                    /\ result.val = JObj([success |-> [t |-> "bool", b |-> TRUE]])

\* restart_miner was answered 2xx with an empty body
C9_Witness ==
    /\ call.op = "restart" /\ pc = "returned"
    /\ SuccessRange(tasks[1].resp.status)
    /\ tasks[1].resp.body = TextBody("")
    /\ result.ok

\* ---------------------------------------------------------------------
\* C10: update_miner_settings, answered with a status outside the success
\* range, returns the SettingsUpdateFailed error, whose text holds the
\* status and the text of the body that was read (the empty text when the
\* body could not be read).
C10_SettingsUpdateFailed ==
    \A k \in TaskIds :
        (tasks[k].kind = "update" /\ tasks[k].hist = <<"status">>
            /\ tasks[k].resp.body # NoBody) =>
            /\ pc = "returned"
            /\ ~result.ok
            /\ result.err[1] = Lit("Failed to update settings (")
            /\ Contains(result.err, StatusPiece(tasks[k].resp.status))
            /\ ~SuccessRange(tasks[k].resp.status)
            /\ tasks[k].resp.body # ReadErr =>
                  Contains(result.err, TextPiece(tasks[k].resp.body))
            /\ tasks[k].resp.body = ReadErr =>
                  Contains(result.err, TextPiece(TextBody("")))

\* the device answered 404 with the body "bad core voltage"
C10_Witness ==
    /\ call.op = "update" /\ pc = "returned"
    /\ tasks[1].resp.status = 404
    /\ tasks[1].resp.body = TextBody("bad core voltage")
    /\ ~result.ok

\* ---------------------------------------------------------------------
\* C11: restart_miner returns an error exactly when the device answered
\* with a status outside the success range, and then the error is
\* "Miner restart failed with status" with that status, or when the
\* transport failed, and then the error is the text of the transport
\* error; whenever else it has returned, it has returned Ok.
C11_RestartFailed ==
    \A k \in TaskIds :
        (tasks[k].kind = "restart" /\ pc = "returned") =>
            LET t == tasks[k] IN
            /\ Len(t.hist) = 1
            /\ t.hist[1] = "status" =>
                  /\ ~SuccessRange(t.resp.status)
                  /\ result = Err(<<Lit("Miner restart failed with status: "),
                                    StatusPiece(t.resp.status)>>)
            /\ t.hist[1] = "transport" =>
                  /\ t.resp.e \in TransportErrors
                  /\ result = Err(<<TransportPiece(t.resp.e)>>)
            /\ t.hist[1] \notin {"status", "transport"} => result.ok
            /\ ~result.ok => t.hist[1] \in {"status", "transport"}

\* restart_miner failed on a timeout
C11_Witness ==
    /\ call.op = "restart" /\ pc = "returned"
    /\ tasks[1].hist = <<"transport">>
    /\ result = Err(<<TransportPiece("timeout")>>)

\* ---------------------------------------------------------------------
\* C16: restart_miner and update_miner_settings have sent exactly one
\* request from their start to their return, whatever the answer: a POST
\* to /api/system/restart, respectively a PATCH to /api/system with the
\* settings, to the address of the call.
C16_OneRequest ==
    \A k \in TaskIds :
        tasks[k].kind \in {"restart", "update"} =>
            LET t == tasks[k] IN
            /\ Len(t.sent) = 1
            /\ t.sent[1].host = call.ip
            /\ t.kind = "restart" =>
                  t.sent[1].method = "POST" /\ t.sent[1].path = "/api/system/restart"
            /\ t.kind = "update" =>
                  /\ t.sent[1].method = "PATCH" /\ t.sent[1].path = "/api/system"
                  /\ t.sent[1].json = call.payload
                  /\ DOMAIN t.sent[1].json = {"frequency", "coreVoltage"}

\* update_miner_settings returned after a transport failure: one request
\* was sent
C16_Witness ==
    /\ call.op = "update" /\ pc = "returned"
    /\ tasks[1].hist = <<"transport">>
    /\ Len(tasks[1].sent) = 1

\* ---------------------------------------------------------------------
\* C20: a scan of a valid subnet with start > end is not rejected: it
\* goes on to its join with no probe, so sends no request, and what it
\* returns is Ok of the empty list.
C20_EmptyRange ==
    (IsScan /\ call.start > call.end /\ WellFormedSubnet(call.subnet)) =>
        /\ pc \in {"join", "running", "returned"}
        /\ tasks = <<>>
        /\ pc = "returned" => result = Ok(<<>>)

\* the scan of 255..0 has returned
C20_Witness ==
    /\ pc = "returned" /\ ValidScan
    /\ call.start = 255 /\ call.end = 0
    /\ result = Ok(<<>>)

\* ---------------------------------------------------------------------
\* C18: a discovery probe that was answered with a success status and a
\* JSON body has returned a record, with the three optional fields absent
\* when the body has none of hostname, version, axeOSVersion and
\* ASICModel (or is no object); and the list of the scan, once returned,
\* has a record with the address of that probe.
HasKey(j, key) == j.t = "obj" /\ key \in DOMAIN j.f

HasStr(j, key) == HasKey(j, key) /\ j.f[key].t = "str"

\* the discovery probes that were answered with a hit
Hits == {k \in TaskIds : /\ tasks[k].kind = "discover"
                         /\ tasks[k].hist # <<>>
                         /\ tasks[k].hist[Len(tasks[k].hist)] = "ok"}

Absent == [some |-> FALSE]

C18_AnyJsonIsAMiner ==
    \A k \in Hits :
        LET t == tasks[k]
            j == t.resp.body.v
        IN  /\ t.pc = "done"
            /\ t.out.some
            /\ t.out.v.ip = t.ip
            /\ (\A key \in {"hostname", "version", "axeOSVersion", "ASICModel"} :
                   ~HasKey(j, key)) =>
                  /\ t.out.v.hostname = Absent
                  /\ t.out.v.version = Absent
                  /\ t.out.v.model = Absent
            /\ (pc = "returned" /\ IsScan) =>
                  \E n \in 1..Len(result.val) : result.val[n] = t.out.v

\* two devices that answer with an empty object, one on each path, are
\* both in the list of the scan
C18_Witness ==
    /\ pc = "returned" /\ ValidScan /\ Len(tasks) = 2
    /\ Hits = {1, 2}
    /\ tasks[1].resp.body = JsonBody(EmptyObject)
    /\ tasks[2].resp.body = JsonBody(EmptyObject)
    /\ Len(tasks[1].sent) = 1 /\ Len(tasks[2].sent) = 2
    /\ Len(result.val) = 2

\* ---------------------------------------------------------------------
\* C17: a step of one probe changes no other probe, and the list a scan
\* of a valid subnet returns is determined by what each address answered
\* to its own probe: for i from start to end in ascending order, the
\* record built from the body of the hit of {subnet}.{i} if that address
\* answered with a hit, and nothing otherwise; so it is the same list
\* under every interleaving, ascending in the last octet, with at most
\* one record per address.
RECURSIVE ListOfAnswers(_)
ListOfAnswers(k) ==
    IF k > Len(tasks) THEN <<>>
    ELSE (IF k \in Hits
          THEN <<ExtractMiner(Address(call.subnet, call.start + k - 1),
                              tasks[k].resp.body.v)>>
          ELSE <<>>) \o ListOfAnswers(k + 1)

C17_NoSharedState ==
    /\ []((pc = "returned" /\ ValidScan) => result = Ok(ListOfAnswers(1)))
    /\ [][(pc = "running" /\ pc' = "running") =>
            \A k \in TaskIds : tasks'[k] # tasks[k] =>
                \A m \in TaskIds \ {k} : tasks'[m] = tasks[m]]_vars

\* two addresses answered with different bodies, the first on its second
\* path and the second on its first: the list has them in address order
C17_Witness ==
    /\ pc = "returned" /\ ValidScan /\ Len(tasks) = 2
    /\ tasks[1].hist = <<"transport", "ok">>
    /\ tasks[2].hist = <<"ok">>
    /\ tasks[1].resp.body = JsonBody(MinerFull)
    /\ tasks[2].resp.body = JsonBody(MinerFallback)
    /\ Len(result.val) = 2
    /\ result.val[1].ip = tasks[1].ip /\ result.val[2].ip = tasks[2].ip

\* ---------------------------------------------------------------------
\* C14: there is no cap on the probes of a scan: when the scan runs,
\* every probe of the range has sent its first request, before any probe
\* has an answer to act on; and every probe that awaits an answer can
\* take its next step whatever the other probes are doing.  (That all
\* probes of the range have a request in flight at once is the witness.)
InFlight(t) == Len(t.sent) - Len(t.hist) = 1 /\ t.pc \in {"send", "body"}

C14_NoConcurrencyCap ==
    (IsScan /\ pc = "running") =>
        /\ \A k \in TaskIds : tasks[k].sent # <<>> /\ tasks[k].pc # "created"
        /\ \A k \in TaskIds :
              /\ tasks[k].pc = "send" => ENABLED SendResolvesAt(k)
              /\ tasks[k].pc = "body" => ENABLED BodyResolvesAt(k)

\* both probes of a range of two have a request in flight, the first one
\* its second request, the second one its first
C14_Witness ==
    /\ pc = "running" /\ ValidScan
    /\ Len(tasks) = 2 /\ call.end - call.start + 1 = 2
    /\ \A k \in TaskIds : InFlight(tasks[k])
    /\ Len(tasks[1].sent) = 2 /\ Len(tasks[2].sent) = 1

\* ---------------------------------------------------------------------
\* C12: the version of the record of a hit is the string under "version"
\* when there is one, and the string under "axeOSVersion" when the body
\* has no "version" key and a string under "axeOSVersion".
Present(str) == [some |-> TRUE, v |-> str]

C12_VersionFallback ==
    \A k \in Hits :
        LET j == tasks[k].resp.body.v
            rec == tasks[k].out.v
        IN  /\ HasStr(j, "version") => rec.version = Present(j.f["version"].s)
            /\ (~HasKey(j, "version") /\ HasStr(j, "axeOSVersion")) =>
                  rec.version = Present(j.f["axeOSVersion"].s)

\* the body {"hostname":"miner1","axeOSVersion":"2.1","ASICModel":"BM1397"}
\* gave the version "2.1"
C12_Witness ==
    \E k \in Hits :
        /\ tasks[k].resp.body.v =
              [t |-> "obj", f |-> [hostname |-> [t |-> "str", s |-> "miner1"],
                                   axeOSVersion |-> [t |-> "str", s |-> "2.1"],
                                   ASICModel |-> [t |-> "str", s |-> "BM1397"]]]
        /\ tasks[k].out.v.version = Present("2.1")

\* ---------------------------------------------------------------------
\* C13: a hit always gives a record, and in it hostname, version and
\* model are each the string found under their key (hostname; version,
\* or axeOSVersion when version is missing; ASICModel) and absent when
\* the key is missing or its value is no string; the scan of the address
\* returns that record in an Ok list.
FieldOf(j, key) == IF HasStr(j, key) THEN Present(j.f[key].s) ELSE Absent

C13_FieldsAbsentOrExact ==
    \A k \in Hits :
        LET j == tasks[k].resp.body.v
            t == tasks[k]
        IN  /\ t.pc = "done"
            /\ t.out.some
            /\ t.out.v.hostname = FieldOf(j, "hostname")
            /\ t.out.v.model = FieldOf(j, "ASICModel")
            /\ t.out.v.version =
                  FieldOf(j, IF HasKey(j, "version") THEN "version" ELSE "axeOSVersion")
            /\ (pc = "returned" /\ IsScan) =>
                  result.ok /\ \E n \in 1..Len(result.val) : result.val[n] = t.out.v

\* a body with a number under hostname, no ASICModel and a string under
\* version gave a record with only the version
C13_Witness ==
    \E k \in Hits :
        /\ pc = "returned"
        /\ HasKey(tasks[k].resp.body.v, "hostname")
        /\ ~HasStr(tasks[k].resp.body.v, "hostname")
        /\ ~HasKey(tasks[k].resp.body.v, "ASICModel")
        /\ tasks[k].out.v.hostname = Absent
        /\ tasks[k].out.v.model = Absent
        /\ tasks[k].out.v.version = Present("v2")
        /\ result.val = <<tasks[k].out.v>>

\* ---------------------------------------------------------------------
\* C19: when the body has a "version" key whose value is no string, the
\* version of the record is absent, whatever is under "axeOSVersion"; a
\* record has the string of "axeOSVersion" as its version only when the
\* body has no "version" key.
C19_NoFallbackOnWrongType ==
    \A k \in Hits :
        LET j == tasks[k].resp.body.v
            rec == tasks[k].out.v
        IN  /\ (HasKey(j, "version") /\ ~HasStr(j, "version")) => rec.version = Absent
            /\ (HasKey(j, "version") /\ rec.version # Absent) =>
                  rec.version = Present(j.f["version"].s)

\* version is a number and axeOSVersion a string: the version is absent
C19_Witness ==
    \E k \in Hits :
        /\ HasKey(tasks[k].resp.body.v, "version")
        /\ ~HasStr(tasks[k].resp.body.v, "version")
        /\ HasStr(tasks[k].resp.body.v, "axeOSVersion")
        /\ tasks[k].out.v.version = Absent

\* ---------------------------------------------------------------------
\* C15: when every request completes and every probe is scheduled, a scan
\* of a valid subnet that was called returns, and so does get_miner_data;
\* a discovery probe sends at most 2 requests, get_miner_data at most 3,
\* and a probe whose last path has been answered is finished.
C15_Terminates ==
    /\ [](\A k \in TaskIds :
            /\ tasks[k].kind = "discover" =>
                  /\ Len(tasks[k].sent) <= 2
                  /\ Len(tasks[k].hist) = 2 => tasks[k].pc = "done"
            /\ tasks[k].kind = "fetch" =>
                  /\ Len(tasks[k].sent) <= 3
                  /\ Len(tasks[k].hist) = 3 => tasks[k].pc = "done")
    /\ ((pc # "idle" /\ (call.op = "fetch" \/ ValidScan)) ~> (pc = "returned"))

\* a scan returned although one of its two addresses never answered: both
\* of its requests ended in a transport error
C15_Witness ==
    /\ pc = "returned" /\ ValidScan /\ Len(tasks) = 2
    /\ tasks[1].hist = <<"transport", "transport">>
    /\ Len(tasks[1].sent) = 2
    /\ tasks[2].out.some

====
